---- MODULE Spec2Model ----
(***************************************************************************)
(* Contrastive RL networks (contrastive/networks.py).                      *)
(*                                                                         *)
(* The network functions are pure: (parameters, inputs) -> outputs.  The   *)
(* state of the model is the configuration make_networks was called with,  *)
(* the parameter collection, the ContrastiveNetworks bundle, the record of *)
(* the last network call and the sampler obtained from                     *)
(* apply_policy_and_sample.                                                *)
(*                                                                         *)
(* Numbers.  Inputs and weights are small integers, on which float         *)
(* arithmetic (+, *, relu) is exact.  The two operations that leave the    *)
(* integers, x / ||x|| and x / exp(s), are kept exactly: an embedding row  *)
(* is [v, sq, ex], standing for the real vector  v / sqrt(sq) / e^ex.      *)
(* sq = 1, ex = 0 is a row that was never divided; sq = 0 is the row 0/0   *)
(* (NaN in every component).  A similarity entry is [num, sq, ex].         *)
(***************************************************************************)
EXTENDS Integers, Sequences, FiniteSets, TLC

VARIABLES cfg, params, networks, built_by, call, sampler, drawn

vars == <<cfg, params, networks, built_by, call, sampler, drawn>>

(***************************************************************************)
(* Bounds of the model and constants of the program.                       *)
(***************************************************************************)
MaxBatch == 2       \* batch sizes 1..MaxBatch
VecDim == 1         \* obs_dim when observations are vectors
ActDim == 1         \* np.prod(spec.actions.shape)
ReprDim == 2        \* repr_dim
HiddenWidth == 2    \* hidden_layer_sizes == <<HiddenWidth>>
LangDim == 1        \* np.sum(maze_shape)
ImgSide == 1        \* side of an image observation (64 in the program)
TorsoDim == 1       \* width of the image encoder's feature vector
MaxSeed == 1        \* parameter collections 0..MaxSeed
MaxInput == 1       \* input batches 0..MaxInput per batch size
MaxLogScale == 1    \* repr_log_scale in -MaxLogScale..MaxLogScale
MaxInvoked == 2     \* invocations of one apply_and_sample closure
GoalDim == 2        \* dummy_goal = np.zeros(2)
ImgChannels == 3    \* reshape(..., (-1, 64, 64, 3))
PixelMax == 255     \* / 255.0

ImgSize == ImgSide * ImgSide * ImgChannels
hidden_layer_sizes == <<HiddenWidth>>
None == "None"
NotProvided == "ValueError: sample function is not provided"

(***************************************************************************)
(* With(v, F) is F(v) with v evaluated once: the value of `LET a == v IN   *)
(* F(a)`.  Every intermediate result of a network function is bound this   *)
(* way, as an assignment binds it in the program.                          *)
(***************************************************************************)
With(v, F(_)) == CHOOSE y \in {F(a) : a \in {v}} : TRUE

(***************************************************************************)
(* Integer vectors and matrices (a matrix is a sequence of rows).          *)
(***************************************************************************)
RECURSIVE SumProducts(_, _, _)
SumProducts(a, b, k) ==
    IF k = 0 THEN 0 ELSE SumProducts(a, b, k - 1) + a[k] * b[k]

Dot(a, b) == SumProducts(a, b, Len(a))

RECURSIVE SumTo(_, _)
SumTo(s, k) == IF k = 0 THEN 0 ELSE SumTo(s, k - 1) + s[k]

Relu(x) == IF x > 0 THEN x ELSE 0

\* X[:, lo-1:hi] in numpy terms: columns lo..hi of every row.
Cols(X, lo, hi) == [r \in 1..Len(X) |-> SubSeq(X[r], lo, hi)]

\* jnp.concatenate([X, Y], axis=-1)
ConcatLast(X, Y) == [r \in 1..Len(X) |-> X[r] \o Y[r]]

(***************************************************************************)
(* hk.Linear and hk.nets.MLP: x @ w + b per layer, relu between layers     *)
(* and, with activate_final false, none after the last.                    *)
(***************************************************************************)
RECURSIVE MatVec(_, _, _, _)
MatVec(x, w, j, i) ==
    IF i = 0 THEN 0 ELSE MatVec(x, w, j, i - 1) + x[i] * w[i][j]

Linear(layer, x) ==
    [j \in 1..Len(layer.b) |-> MatVec(x, layer.w, j, Len(x)) + layer.b[j]]

RECURSIVE MLPFrom(_, _, _)
MLPFrom(layers, i, x) ==
    IF i > Len(layers) THEN x
    ELSE With(Linear(layers[i], x), LAMBDA y :
         With(IF i < Len(layers) THEN [k \in 1..Len(y) |-> Relu(y[k])] ELSE y, LAMBDA z :
         MLPFrom(layers, i + 1, z)))

MLP(layers, X) == [r \in 1..Len(X) |-> MLPFrom(layers, 1, X[r])]

(***************************************************************************)
(* Embedding rows  v / sqrt(sq) / e^ex.                                    *)
(***************************************************************************)
Raw(X) == [r \in 1..Len(X) |-> [v |-> X[r], sq |-> 1, ex |-> 0]]

\* A faulty variant of DivideByNorm: divides by the squared norm (the square root forgotten).
DivideBySquaredNorm(E) ==
    [r \in 1..Len(E) |->
       [v |-> E[r].v, sq |-> E[r].sq * Dot(E[r].v, E[r].v) * Dot(E[r].v, E[r].v), ex |-> E[r].ex]]

\* x / jnp.linalg.norm(x, axis=1, keepdims=True), applied to undivided rows:
\* row r is divided by sqrt(x[r] . x[r]); a zero row becomes 0/0.
DivideByNorm(E) ==
    [r \in 1..Len(E) |-> [v |-> E[r].v, sq |-> E[r].sq * Dot(E[r].v, E[r].v), ex |-> E[r].ex]]

\* A faulty variant of DivideByExp: divides by log_scale itself (the exp forgotten).
DivideByLogScale(E, log_scale) ==
    [r \in 1..Len(E) |-> [E[r] EXCEPT !.sq = @ * log_scale * log_scale]]

\* x / jnp.exp(log_scale)
DivideByExp(E, log_scale) ==
    [r \in 1..Len(E) |-> [E[r] EXCEPT !.ex = @ + log_scale]]

\* The L2 norm of the row is exactly 1.  (v.v / sq) / e^(2 ex) = 1 with
\* integers v, sq, ex forces ex = 0, e^(2 ex) being irrational otherwise.
UnitNorm(row) == row.sq > 0 /\ Dot(row.v, row.v) = row.sq /\ row.ex = 0

IsNaN(row) == row.sq = 0

(***************************************************************************)
(* Names of modules and parameters.  Inside one hk.transform the n-th      *)
(* module created with a name already taken gets the suffix _n.            *)
(***************************************************************************)
UniqueName(base, n) == IF n = 0 THEN base ELSE base \o "_" \o ToString(n)

LogScaleName == "repr_log_scale"
Bases == {"atari_torso", "sa_encoder", "g_encoder", "l_encoder"}
NoneMade == [b \in Bases |-> 0]
Make(made, base) == [made EXCEPT ![base] = @ + 1]

\* One entry of the log of a traced function: a module applied to an input,
\* a parameter read, or a step on the observation.
Applied(name, input) == [op |-> "module", name |-> name, input |-> input]
GotParameter(name) == [op |-> "get_parameter", name |-> name, input |-> <<>>]
Step(what, input) == [op |-> what, name |-> "", input |-> input]

NamesOf(trace) ==
    {trace[i].name : i \in {k \in 1..Len(trace) : trace[k].op \in {"module", "get_parameter"}}}

(***************************************************************************)
(* make_networks' arguments.  obs_dim is the length of the state segment   *)
(* of an observation: the flattened image when observations are images.    *)
(***************************************************************************)
Flags == [repr_norm : BOOLEAN, repr_norm_temp : BOOLEAN,
          twin_q : BOOLEAN, use_image_obs : BOOLEAN]

obs_dim(c) == IF c.use_image_obs THEN ImgSize ELSE VecDim
GoalLen(c) == IF c.use_image_obs THEN ImgSize ELSE GoalDim
StateRepDim(c) == IF c.use_image_obs THEN TorsoDim ELSE VecDim
GoalRepDim(c) == IF c.use_image_obs THEN TorsoDim ELSE GoalDim

(***************************************************************************)
(* _unflatten_obs: both segments reshaped to (-1, side, side, 3) and       *)
(* divided by 255.  Pixels of the model are 0 or 255, so the division is   *)
(* exact.                                                                  *)
(***************************************************************************)
RECURSIVE FlattenTo(_, _)
FlattenTo(X, r) == IF r = 0 THEN <<>> ELSE FlattenTo(X, r - 1) \o X[r]

Reshape(X) ==
    With(FlattenTo(X, Len(X)), LAMBDA flat :
      [b \in 1..(Len(flat) \div ImgSize) |->
        [h \in 1..ImgSide |->
          [w \in 1..ImgSide |->
            [ch \in 1..ImgChannels |->
               flat[(((b - 1) * ImgSide + (h - 1)) * ImgSide + (w - 1)) * ImgChannels + ch]
                 \div PixelMax]]]])

_unflatten_obs(c, obs) ==
    With(Cols(obs, 1, obs_dim(c)), LAMBDA s :
    With(Cols(obs, obs_dim(c) + 1, Len(obs[1])), LAMBDA g :
      [state |-> Reshape(s), goal |-> Reshape(g)]))

\* networks_lib.AtariTorso, kept abstract: one feature vector per image,
\* a relu of an affine function of the image's pixels.
PixelSum(img) ==
    With(FlattenTo(img, Len(img)), LAMBDA rows :
    With(FlattenTo(rows, Len(rows)), LAMBDA pixels : SumTo(pixels, Len(pixels))))

TORSO(p, imgs) ==
    [b \in 1..Len(imgs) |->
       With(PixelSum(imgs[b]), LAMBDA total :
         [t \in 1..Len(p.b) |-> Relu(p.w[t] * total + p.b[t])])]

(***************************************************************************)
(* The network functions, as hk.transform traces them.  P is the parameter *)
(* collection, made counts the modules created so far under each name.     *)
(* Besides the values the Python function returns, each result carries     *)
(* the log of what the call did (trace) and the updated count (made).      *)
(***************************************************************************)
NoHidden == [given |-> FALSE]
Hidden(pair) == [given |-> TRUE, state |-> pair.state, goal |-> pair.goal]

_goal_fn(P, goal, made) ==
    With(UniqueName("g_encoder", made["g_encoder"]), LAMBDA name :
      [g_repr |-> MLP(P[name], goal),
       trace  |-> <<Applied(name, goal)>>,
       made   |-> Make(made, "g_encoder")])

\* A faulty variant of StateAndGoal: a supplied hidden pair is divided by 255 again, as
\* if it were still pixels.
StateAndGoalRescaled(P, c, obs, hidden, made) ==
    IF ~hidden.given
    THEN IF c.use_image_obs
         THEN With(_unflatten_obs(c, obs), LAMBDA u :
              With(UniqueName("atari_torso", made["atari_torso"]), LAMBDA img_encoder :
                [state |-> TORSO(P[img_encoder], u.state),
                 goal  |-> TORSO(P[img_encoder], u.goal),
                 trace |-> <<Step("unflatten", obs),
                             Applied(img_encoder, u.state), Applied(img_encoder, u.goal)>>,
                 made  |-> Make(made, "atari_torso")]))
         ELSE [state |-> Cols(obs, 1, obs_dim(c)),
               goal  |-> Cols(obs, obs_dim(c) + 1, Len(obs[1])),
               trace |-> <<Step("split", obs)>>,
               made  |-> made]
    ELSE [state |-> [r \in 1..Len(hidden.state) |->
                       [k \in 1..Len(hidden.state[r]) |-> hidden.state[r][k] \div PixelMax]],
          goal  |-> [r \in 1..Len(hidden.goal) |->
                       [k \in 1..Len(hidden.goal[r]) |-> hidden.goal[r][k] \div PixelMax]],
          trace |-> <<>>, made |-> made]

\* Lines 93-103 of _repr_fn: the (state, goal) pair the encoders are given.
StateAndGoal(P, c, obs, hidden, made) ==
    IF ~hidden.given
    THEN IF c.use_image_obs
         THEN With(_unflatten_obs(c, obs), LAMBDA u :
              With(UniqueName("atari_torso", made["atari_torso"]), LAMBDA img_encoder :
                [state |-> TORSO(P[img_encoder], u.state),
                 goal  |-> TORSO(P[img_encoder], u.goal),
                 trace |-> <<Step("unflatten", obs),
                             Applied(img_encoder, u.state), Applied(img_encoder, u.goal)>>,
                 made  |-> Make(made, "atari_torso")]))
         ELSE [state |-> Cols(obs, 1, obs_dim(c)),
               goal  |-> Cols(obs, obs_dim(c) + 1, Len(obs[1])),
               trace |-> <<Step("split", obs)>>,
               made  |-> made]
    ELSE [state |-> hidden.state, goal |-> hidden.goal, trace |-> <<>>, made |-> made]

\* Lines 115-122 of _repr_fn: the embeddings after normalisation and scaling.
Normalised(P, c, sa_raw, g_raw) ==
    IF c.repr_norm
    THEN With(DivideByNorm(sa_raw), LAMBDA sa_repr :
           [sa_repr |-> IF c.repr_norm_temp
                        THEN DivideByExp(sa_repr, P[LogScaleName])
                        ELSE sa_repr,
            g_repr  |-> DivideByNorm(g_raw),
            trace   |-> IF c.repr_norm_temp THEN <<GotParameter(LogScaleName)>> ELSE <<>>])
    ELSE [sa_repr |-> sa_raw, g_repr |-> g_raw, trace |-> <<>>]

_repr_fn(P, c, obs, action, hidden, made) ==
    With(StateAndGoal(P, c, obs, hidden, made), LAMBDA pre :
    With(UniqueName("sa_encoder", pre.made["sa_encoder"]), LAMBDA sa_name :
    With(ConcatLast(pre.state, action), LAMBDA sa_in :
    With(Raw(MLP(P[sa_name], sa_in)), LAMBDA sa_raw :
    With(_goal_fn(P, pre.goal, Make(pre.made, "sa_encoder")), LAMBDA g :
    With(Raw(g.g_repr), LAMBDA g_raw :
    With(Normalised(P, c, sa_raw, g_raw), LAMBDA n :
      [sa_repr |-> n.sa_repr,
       g_repr  |-> n.g_repr,
       hidden  |-> [state |-> pre.state, goal |-> pre.goal],
       trace   |-> pre.trace \o <<Applied(sa_name, sa_in)>> \o g.trace \o n.trace,
       made    |-> g.made])))))))

(***************************************************************************)
(* Similarity.  An array is [shape, data]: data maps each index tuple of   *)
(* the shape to an entry  num / sqrt(sq) / e^ex.                           *)
(***************************************************************************)
\* A faulty variant of _combine_repr: einsum('ik,jk->ji'), the output transposed.
_combine_repr_transposed(sa_repr, g_repr) ==
    [shape |-> <<Len(g_repr), Len(sa_repr)>>,
     data  |-> [ix \in (1..Len(g_repr)) \X (1..Len(sa_repr)) |->
                  [num |-> SumProducts(sa_repr[ix[2]].v, g_repr[ix[1]].v, Len(sa_repr[ix[2]].v)),
                   sq  |-> sa_repr[ix[2]].sq * g_repr[ix[1]].sq,
                   ex  |-> sa_repr[ix[2]].ex + g_repr[ix[1]].ex]]]

\* A faulty variant of _combine_repr: the negative squared distance between the two
\* embeddings in place of their inner product.
RECURSIVE SumSquaredDifferences(_, _, _)
SumSquaredDifferences(a, b, k) ==
    IF k = 0 THEN 0
    ELSE SumSquaredDifferences(a, b, k - 1) + (a[k] - b[k]) * (a[k] - b[k])

_combine_repr_distance(sa_repr, g_repr) ==
    [shape |-> <<Len(sa_repr), Len(g_repr)>>,
     data  |-> [ix \in (1..Len(sa_repr)) \X (1..Len(g_repr)) |->
                  [num |-> 0 - SumSquaredDifferences(sa_repr[ix[1]].v, g_repr[ix[2]].v,
                                                     Len(sa_repr[ix[1]].v)),
                   sq  |-> sa_repr[ix[1]].sq * g_repr[ix[2]].sq,
                   ex  |-> sa_repr[ix[1]].ex + g_repr[ix[2]].ex]]]

\* jax.numpy.einsum('ik,jk->ij', sa_repr, g_repr)
_combine_repr(sa_repr, g_repr) ==
    [shape |-> <<Len(sa_repr), Len(g_repr)>>,
     data  |-> [ix \in (1..Len(sa_repr)) \X (1..Len(g_repr)) |->
                  [num |-> SumProducts(sa_repr[ix[1]].v, g_repr[ix[2]].v, Len(sa_repr[ix[1]].v)),
                   sq  |-> sa_repr[ix[1]].sq * g_repr[ix[2]].sq,
                   ex  |-> sa_repr[ix[1]].ex + g_repr[ix[2]].ex]]]

\* A faulty variant of StackLast: jnp.stack(arrays, axis=0).
StackFirst(arrays) ==
    [shape |-> <<Len(arrays)>> \o arrays[1].shape,
     data  |-> [ix \in (1..Len(arrays)) \X (1..arrays[1].shape[1]) \X (1..arrays[1].shape[2]) |->
                  arrays[ix[1]].data[<<ix[2], ix[3]>>]]]

\* jnp.stack(arrays, axis=-1) of arrays of one two-dimensional shape
StackLast(arrays) ==
    [shape |-> arrays[1].shape \o <<Len(arrays)>>,
     data  |-> [ix \in (1..arrays[1].shape[1]) \X (1..arrays[1].shape[2]) \X (1..Len(arrays)) |->
                  arrays[ix[3]].data[<<ix[1], ix[2]>>]]]

\* A faulty variant of _critic_fn: the second call is not given the hidden pair.
_critic_fn_recomputing(P, c, obs, action) ==
    With(_repr_fn(P, c, obs, action, NoHidden, NoneMade), LAMBDA r1 :
    With(_combine_repr(r1.sa_repr, r1.g_repr), LAMBDA outer :
      IF c.twin_q
      THEN With(_repr_fn(P, c, obs, action, NoHidden, r1.made), LAMBDA r2 :
           With(_combine_repr(r2.sa_repr, r2.g_repr), LAMBDA outer2 :
             [outer |-> StackLast(<<outer, outer2>>),
              heads |-> <<r1, r2>>,
              trace |-> r1.trace \o r2.trace]))
      ELSE [outer |-> outer, heads |-> <<r1>>, trace |-> r1.trace]))

_critic_fn(P, c, obs, action) ==
    With(_repr_fn(P, c, obs, action, NoHidden, NoneMade), LAMBDA r1 :
    With(_combine_repr(r1.sa_repr, r1.g_repr), LAMBDA outer :
      IF c.twin_q
      THEN With(_repr_fn(P, c, obs, action, Hidden(r1.hidden), r1.made), LAMBDA r2 :
           With(_combine_repr(r2.sa_repr, r2.g_repr), LAMBDA outer2 :
             [outer |-> StackLast(<<outer, outer2>>),
              heads |-> <<r1, r2>>,
              trace |-> r1.trace \o r2.trace]))
      ELSE [outer |-> outer, heads |-> <<r1>>, trace |-> r1.trace]))

\* A faulty variant of _language_fn: the goal embedding is normalised before it is used.
_language_fn_normalised(P, goal, language) ==
    With(_goal_fn(P, goal, NoneMade), LAMBDA g :
    With(UniqueName("l_encoder", g.made["l_encoder"]), LAMBDA l_name :
    With(DivideByNorm(Raw(g.g_repr)), LAMBDA g_repr :
    With(Raw(MLP(P[l_name], language)), LAMBDA l_repr :
      [g_repr |-> g_repr,
       l_repr |-> l_repr,
       outer  |-> _combine_repr(g_repr, l_repr),
       trace  |-> g.trace \o <<Applied(l_name, language)>>]))))

_language_fn(P, goal, language) ==
    With(_goal_fn(P, goal, NoneMade), LAMBDA g :
    With(UniqueName("l_encoder", g.made["l_encoder"]), LAMBDA l_name :
    With(Raw(g.g_repr), LAMBDA g_repr :
    With(Raw(MLP(P[l_name], language)), LAMBDA l_repr :
      [g_repr |-> g_repr,
       l_repr |-> l_repr,
       outer  |-> _combine_repr(g_repr, l_repr),
       trace  |-> g.trace \o <<Applied(l_name, language)>>]))))

\* _actor_fn's result, kept abstract: the action distribution the policy
\* parameters assign to the observation.
_actor_fn(obs) == [dist_of |-> obs]

(***************************************************************************)
(* Parameter collections.  init traces the critic and the language network *)
(* on dummy inputs and creates a parameter for every name they ask for;    *)
(* apply reads them.  The values are those of a collection after training: *)
(* weights and biases set by the seed, repr_log_scale any small integer    *)
(* (init sets it to 0).  The model keeps the critic's and the language     *)
(* network's parameters in one collection, g_encoder taking the critic's   *)
(* goal representation.                                                    *)
(***************************************************************************)
Salt(base) ==
    CASE base = "atari_torso" -> 1
      [] base = "sa_encoder" -> 2
      [] base = "g_encoder" -> 3
      [] base = "l_encoder" -> 5

Weight(seed, salt, l, i, j) == ((seed * 5 + salt * 3 + l * 7 + i * 2 + j * (seed + 1)) % 4) - 1
Bias(seed, salt, l, j) == (seed + salt + l + j) % 2

MLPInit(seed, salt, indim, sizes) ==
    [l \in 1..Len(sizes) |->
        [w |-> [i \in 1..(IF l = 1 THEN indim ELSE sizes[l - 1]) |->
                  [j \in 1..sizes[l] |-> Weight(seed, salt, l, i, j)]],
         b |-> [j \in 1..sizes[l] |-> Bias(seed, salt, l, j)]]]

InDim(c, base) ==
    CASE base = "sa_encoder" -> StateRepDim(c) + ActDim
      [] base = "g_encoder" -> GoalRepDim(c)
      [] base = "l_encoder" -> LangDim

Created(c, seed, log_scale, base, n) ==
    IF base = "atari_torso"
    THEN [w |-> [t \in 1..TorsoDim |-> Weight(seed, Salt(base) + n, 0, 0, t)],
          b |-> [t \in 1..TorsoDim |-> Bias(seed, Salt(base) + n, 0, t)]]
    ELSE MLPInit(seed, Salt(base) + n, InDim(c, base), hidden_layer_sizes \o <<ReprDim>>)

Zeros(b, n) == [r \in 1..b |-> [k \in 1..n |-> 0]]
dummy_obs(c) == Zeros(1, obs_dim(c) + GoalLen(c))
dummy_action == Zeros(1, ActDim)
\* np.zeros(2) in the program, the width of a vector goal; with image
\* observations the shared g_encoder takes the image encoder's features.
dummy_goal(c) == Zeros(1, GoalRepDim(c))
dummy_language == Zeros(1, LangDim)

init(c, seed, log_scale) ==
    LET AllNames == {UniqueName(b, n) : b \in Bases, n \in 0..1} \cup {LogScaleName}
        fresh == [name \in AllNames |->
                    IF name = LogScaleName THEN log_scale
                    ELSE LET bn == CHOOSE x \in Bases \X (0..1) : UniqueName(x[1], x[2]) = name
                         IN  Created(c, seed, log_scale, bn[1], bn[2])]
    IN  With(fresh, LAMBDA F :
        With(NamesOf(_critic_fn(F, c, dummy_obs(c), dummy_action).trace)
               \cup NamesOf(_language_fn(F, dummy_goal(c), dummy_language).trace),
             LAMBDA asked : [name \in asked |-> F[name]]))

(***************************************************************************)
(* Input batches.                                                          *)
(***************************************************************************)
Val(s, r, k) == ((s * 3 + r * 2 + k * (s + 1)) % 4) - 1
Pixel(s, r, k) == PixelMax * ((s + r + (k \div ImgChannels)) % 2)

Batch(b, n, s) == [r \in 1..b |-> [k \in 1..n |-> Val(s, r, k)]]
Obs(c, b, s) ==
    IF c.use_image_obs
    THEN [r \in 1..b |-> [k \in 1..(2 * ImgSize) |-> Pixel(s, r, k)]]
    ELSE Batch(b, obs_dim(c) + GoalLen(c), s)

Sizes == 1..MaxBatch
Inputs == 0..MaxInput
Scalars == -1..2

(***************************************************************************)
(* The bundle and the sampler.                                             *)
(***************************************************************************)
\* The handles of the functions a bundle can hold in sample / sample_eval:
\* lambda params, key: params.sample(seed=key)  and
\* lambda params, key: params.mode()
SampleFn == "sample"
ModeFn == "mode"

ContrastiveNetworks(sample, sample_eval) ==
    [policy_network |-> "policy", q_network |-> "critic", l_network |-> "language",
     log_prob |-> "log_prob", goal_fn |-> "goal_fn.apply", repr_fn |-> "repr_fn.apply",
     sample |-> sample, sample_eval |-> sample_eval]

\* A faulty variant of make_networks: sample_eval is left at its default, None.
make_networks_without_eval(c) == ContrastiveNetworks(SampleFn, None)

make_networks(c) == ContrastiveNetworks(SampleFn, ModeFn)

\* A faulty variant of apply_policy_and_sample: a missing sample_eval falls back to sample.
apply_policy_and_sample_fallback(nets, eval_mode) ==
    LET sample_fn == IF ~eval_mode \/ nets.sample_eval = None
                     THEN nets.sample ELSE nets.sample_eval
    IN  IF sample_fn = None
        THEN [raised |-> NotProvided, sample_fn |-> None]
        ELSE [raised |-> None, sample_fn |-> sample_fn]

\* The outcome of apply_policy_and_sample: the error raised, or the
\* closure apply_and_sample with the sample_fn it captured.
apply_policy_and_sample(nets, eval_mode) ==
    LET sample_fn == IF ~eval_mode THEN nets.sample ELSE nets.sample_eval
    IN  IF sample_fn = None
        THEN [raised |-> NotProvided, sample_fn |-> None]
        ELSE [raised |-> None, sample_fn |-> sample_fn]

\* apply_and_sample(params, key, obs), with the captured sample_fn
apply_and_sample(sample_fn, key, obs) ==
    LET dist == _actor_fn(obs)
    IN  CASE sample_fn = SampleFn -> [how |-> "sample", dist |-> dist, seed |-> key]
          [] sample_fn = ModeFn -> [how |-> "mode", dist |-> dist, seed |-> None]
          [] OTHER -> [how |-> "TypeError: object is not callable", dist |-> dist, seed |-> None]

Idle == [fn |-> "none"]
NoSampler == [asked |-> FALSE]
NotDrawn == [how |-> "nothing"]

(***************************************************************************)
(* Initial states: make_networks has been called with some flags and has   *)
(* returned its bundle; a parameter collection exists.                     *)
(***************************************************************************)
Init ==
    /\ \E c \in Flags, seed \in 0..MaxSeed, ls \in (-MaxLogScale)..MaxLogScale :
          /\ cfg = c
          /\ params = init(c, seed, ls)
    /\ networks = make_networks(cfg)
    /\ built_by = "make_networks"
    /\ call = Idle
    /\ sampler = NoSampler
    /\ drawn = NotDrawn

(***************************************************************************)
(* Network calls.  A call is made when no result is pending, and records   *)
(* its arguments and its result; Return hands the result to the caller.    *)
(* Each action reads the state once, into c (cfg), P (params) and last     *)
(* (call), and computes on those values.                                   *)
(***************************************************************************)
NetUnchanged == UNCHANGED <<cfg, params, networks, built_by, sampler, drawn>>

\* repr_fn.apply(params, obs, action)
CallReprFn ==
    /\ call.fn = "none"
    /\ \E c \in {cfg}, P \in {params}, b \in Sizes, so \in Inputs, sa \in Inputs :
          \E obs \in {Obs(c, b, so)}, action \in {Batch(b, ActDim, sa)} :
              call' = [fn |-> "repr_fn", obs |-> obs, action |-> action,
                       out |-> _repr_fn(P, c, obs, action, NoHidden, NoneMade)]
    /\ NetUnchanged

\* repr_fn.apply(params, obs, action, hidden) with the pair the last call returned
CallReprFnHidden ==
    /\ call.fn = "repr_fn"
    /\ \E c \in {cfg}, P \in {params}, last \in {call} :
          call' = [fn |-> "repr_fn_hidden", obs |-> last.obs, action |-> last.action,
                   first |-> last.out,
                   out |-> _repr_fn(P, c, last.obs, last.action,
                                    Hidden(last.out.hidden), NoneMade)]
    /\ NetUnchanged

\* q_network.apply(params, obs, action)
CallCriticFn ==
    /\ call.fn = "none"
    /\ \E c \in {cfg}, P \in {params}, b \in Sizes, so \in Inputs, sa \in Inputs :
          \E obs \in {Obs(c, b, so)}, action \in {Batch(b, ActDim, sa)} :
              call' = [fn |-> "critic", obs |-> obs, action |-> action,
                       out |-> _critic_fn(P, c, obs, action)]
    /\ NetUnchanged

\* l_network.apply(params, goal, language) on a fresh goal batch
CallLanguageFn ==
    /\ call.fn = "none"
    /\ \E c \in {cfg}, P \in {params}, n \in Sizes, m \in Sizes, sg \in Inputs, sl \in Inputs :
          \E goal \in {Batch(n, GoalRepDim(c), sg)}, language \in {Batch(m, LangDim, sl)} :
              call' = [fn |-> "language", goal |-> goal, language |-> language,
                       out |-> _language_fn(P, goal, language)]
    /\ NetUnchanged

\* l_network.apply(params, goal, language) on the goal the last repr_fn call encoded
CallLanguageFnOnGoal ==
    /\ call.fn = "repr_fn"
    /\ \E P \in {params}, last \in {call}, m \in Sizes, sl \in Inputs :
          \E goal \in {last.out.hidden.goal}, language \in {Batch(m, LangDim, sl)} :
              call' = [fn |-> "language_on_goal", goal |-> goal, language |-> language,
                       repr |-> last.out,
                       out |-> _language_fn(P, goal, language)]
    /\ NetUnchanged

\* _combine_repr on the last repr_fn call's embeddings, the rows scaled by k
ScaleRows(k, E) == [r \in 1..Len(E) |-> [E[r] EXCEPT !.v = [i \in 1..Len(@) |-> k * @[i]]]]
ScaleEntry(k, e) == [e EXCEPT !.num = k * @]

CallCombineRepr ==
    /\ call.fn = "repr_fn"
    /\ \E last \in {call}, k \in Scalars :
          \E rows \in {last.out.sa_repr}, cols \in {last.out.g_repr} :
          \E scaled \in {ScaleRows(k, rows)} :
              call' = [fn |-> "combine", k |-> k, rows |-> rows, cols |-> cols,
                       plain |-> _combine_repr(rows, cols),
                       out |-> _combine_repr(scaled, cols)]
    /\ NetUnchanged

Return ==
    /\ call.fn # "none"
    /\ call' = Idle
    /\ NetUnchanged

(***************************************************************************)
(* Bundles and samplers.                                                   *)
(***************************************************************************)
SamplerUnchanged == UNCHANGED <<cfg, params, call>>

\* make_networks called again with the same arguments
MakeNetworks ==
    /\ networks' = make_networks(cfg)
    /\ built_by' = "make_networks"
    /\ sampler' = NoSampler
    /\ drawn' = NotDrawn
    /\ SamplerUnchanged

\* A bundle built by calling the dataclass constructor directly
Construct ==
    /\ \E sample \in {None, SampleFn}, sample_eval \in {None, ModeFn, SampleFn} :
          networks' = ContrastiveNetworks(sample, sample_eval)
    /\ built_by' = "constructor"
    /\ sampler' = NoSampler
    /\ drawn' = NotDrawn
    /\ SamplerUnchanged

ApplyPolicyAndSample ==
    /\ \E nets \in {networks}, eval_mode \in BOOLEAN :
          LET got == apply_policy_and_sample(nets, eval_mode)
          IN  sampler' = [asked |-> TRUE, eval_mode |-> eval_mode, nets |-> nets,
                          built_by |-> built_by,
                          raised |-> got.raised, sample_fn |-> got.sample_fn,
                          invoked |-> 0]
    /\ drawn' = NotDrawn
    /\ UNCHANGED <<networks, built_by>>
    /\ SamplerUnchanged

\* The caller invokes the closure it was given (an exception is no closure).
ApplyAndSample ==
    /\ sampler.asked
    /\ sampler.raised = None
    /\ sampler.invoked < MaxInvoked
    /\ \E c \in {cfg}, key \in Inputs, b \in Sizes :
          drawn' = apply_and_sample(sampler.sample_fn, key, Obs(c, b, 0))
    /\ sampler' = [sampler EXCEPT !.invoked = @ + 1]
    /\ UNCHANGED <<networks, built_by>>
    /\ SamplerUnchanged

Next ==
    \/ CallReprFn
    \/ CallReprFnHidden
    \/ CallCriticFn
    \/ CallLanguageFn
    \/ CallLanguageFnOnGoal
    \/ CallCombineRepr
    \/ Return

Spec == Init /\ [][Next]_vars

SamplerNext ==
    \/ MakeNetworks
    \/ Construct
    \/ ApplyPolicyAndSample
    \/ ApplyAndSample

SamplerSpec == Init /\ [][SamplerNext]_vars

(***************************************************************************)
(* Properties.  Each reads the state once, into bound variables.           *)
(***************************************************************************)
Rows(E) == {E[r] : r \in 1..Len(E)}
IsZero(v) == \A k \in 1..Len(v) : v[k] = 0
InnerProduct(a, b) == [num |-> Dot(a.v, b.v), sq |-> a.sq * b.sq, ex |-> a.ex + b.ex]

\* C1 as stated: whenever the language network is applied to the goal
\* representation a repr_fn call encoded, with the same parameters, its goal
\* embedding equals the one repr_fn returned, whatever the flags.
C1_SameGoalEmbeddingAllFlags ==
    \A k \in {call} :
        k.fn = "language_on_goal" => k.out.g_repr = k.repr.g_repr

\* C1 amended: the two goal embeddings are equal when repr_norm is false;
\* when repr_norm is true the one repr_fn returned is the language network's
\* divided row by row by its L2 norm.
C1_SameGoalEmbedding ==
    \A c \in {cfg}, k \in {call} :
        k.fn = "language_on_goal" =>
            IF c.repr_norm
            THEN /\ Len(k.repr.g_repr) = Len(k.out.g_repr)
                 /\ \A r \in 1..Len(k.out.g_repr) :
                      /\ k.repr.g_repr[r].v = k.out.g_repr[r].v
                      /\ k.repr.g_repr[r].sq = Dot(k.out.g_repr[r].v, k.out.g_repr[r].v)
                      /\ k.repr.g_repr[r].ex = 0
                      /\ k.out.g_repr[r].sq = 1 /\ k.out.g_repr[r].ex = 0
            ELSE k.out.g_repr = k.repr.g_repr

C1_Witness ==
    /\ call.fn = "language_on_goal"
    /\ ~cfg.repr_norm /\ cfg.use_image_obs /\ cfg.twin_q
    /\ Len(call.out.g_repr) = MaxBatch
    /\ \E row \in Rows(call.out.g_repr) : ~IsZero(row.v)

\* C2: the critic's output has shape (B, B) without twin_q and (B, B, 2)
\* with it, entry (i, j, h) being entry (i, j) of head h's matrix.
C2_CriticShape ==
    \A c \in {cfg}, k \in {call} :
        k.fn = "critic" =>
            \E B \in {Len(k.obs)} :
                IF c.twin_q
                THEN /\ k.out.outer.shape = <<B, B, 2>>
                     /\ DOMAIN k.out.outer.data = (1..B) \X (1..B) \X (1..2)
                     /\ Len(k.out.heads) = 2
                     /\ \A i \in 1..B, j \in 1..B, h \in 1..2 :
                          k.out.outer.data[<<i, j, h>>] =
                            InnerProduct(k.out.heads[h].sa_repr[i], k.out.heads[h].g_repr[j])
                ELSE /\ k.out.outer.shape = <<B, B>>
                     /\ DOMAIN k.out.outer.data = (1..B) \X (1..B)

C2_Witness ==
    /\ call.fn = "critic" /\ cfg.twin_q
    /\ Len(call.obs) = MaxBatch
    /\ \E i \in 1..MaxBatch, j \in 1..MaxBatch :
          call.out.outer.data[<<i, j, 1>>] # call.out.outer.data[<<i, j, 2>>]

\* C3: asking for the evaluation sampler of a bundle whose sample_eval is
\* None raises the ValueError and returns no sampling function.
C3_EvalWithoutSamplerRaises ==
    \A s \in {sampler} :
        (s.asked /\ s.eval_mode /\ s.nets.sample_eval = None) =>
            /\ s.raised = NotProvided
            /\ s.sample_fn = None
            /\ s.invoked = 0
            /\ drawn = NotDrawn

C3_Witness ==
    /\ sampler.asked /\ sampler.eval_mode
    /\ sampler.nets.sample_eval = None /\ sampler.nets.sample = SampleFn
    /\ sampler.raised = NotProvided

\* C4: a repr_fn call given the hidden pair an earlier call returned (same
\* parameters, observation and action) returns the same state-action
\* embedding, and returns the pair it was given.
C4_CacheCorrect ==
    \A k \in {call} :
        k.fn = "repr_fn_hidden" =>
            /\ k.out.sa_repr = k.first.sa_repr
            /\ k.out.hidden = k.first.hidden

C4_Witness ==
    /\ call.fn = "repr_fn_hidden" /\ cfg.use_image_obs
    /\ \E row \in Rows(call.out.sa_repr) : ~IsZero(row.v)
    /\ \E r \in 1..Len(call.out.hidden.state) : ~IsZero(call.out.hidden.state[r])

\* C5 as stated: with repr_norm, every embedding repr_fn and the language
\* network return has unit L2 norm.
C5_AllEmbeddingsUnitNorm ==
    \A c \in {cfg}, k \in {call} :
        c.repr_norm =>
            /\ k.fn \in {"repr_fn", "repr_fn_hidden"} =>
                 \A row \in Rows(k.out.sa_repr) \cup Rows(k.out.g_repr) : UnitNorm(row)
            /\ k.fn \in {"language", "language_on_goal"} =>
                 \A row \in Rows(k.out.g_repr) \cup Rows(k.out.l_repr) : UnitNorm(row)

\* C5 amended: with repr_norm, a row of repr_fn's goal embedding has unit
\* norm unless the encoder's output was zero, when it is 0/0; a row of the
\* state-action embedding likewise, but with norm exp(-repr_log_scale) when
\* repr_norm_temp is set; the language network's embeddings are the
\* encoders' outputs, undivided.
C5_NormOfEmbeddings ==
    \A c \in {cfg}, P \in {params}, k \in {call} :
        c.repr_norm =>
            /\ k.fn \in {"repr_fn", "repr_fn_hidden"} =>
                 /\ \A row \in Rows(k.out.g_repr) :
                      IF IsZero(row.v) THEN IsNaN(row) ELSE UnitNorm(row)
                 /\ \A row \in Rows(k.out.sa_repr) :
                      IF IsZero(row.v) THEN IsNaN(row)
                      ELSE /\ row.sq = Dot(row.v, row.v)
                           /\ row.ex = IF c.repr_norm_temp THEN P[LogScaleName] ELSE 0
                           /\ UnitNorm(row) <=> (c.repr_norm_temp => P[LogScaleName] = 0)
            /\ k.fn \in {"language", "language_on_goal"} =>
                 \A row \in Rows(k.out.g_repr) \cup Rows(k.out.l_repr) :
                      /\ row.sq = 1 /\ row.ex = 0
                      /\ UnitNorm(row) <=> Dot(row.v, row.v) = 1

C5_Witness ==
    /\ cfg.repr_norm /\ cfg.repr_norm_temp
    /\ call.fn = "repr_fn"
    /\ params[LogScaleName] # 0
    /\ \E row \in Rows(call.out.g_repr) : UnitNorm(row) /\ row.sq > 1
    /\ \E row \in Rows(call.out.sa_repr) : ~IsZero(row.v) /\ row.sq > 1

\* C6: with repr_norm and repr_norm_temp set and repr_log_scale = 0 the
\* state-action embedding is the one the call returns with repr_norm_temp
\* off; without repr_norm, repr_norm_temp changes nothing and no
\* repr_log_scale parameter exists or is read.
C6_TemperatureAtZero ==
    \A c \in {cfg}, P \in {params}, k \in {call} :
        k.fn = "repr_fn" =>
            /\ (c.repr_norm /\ c.repr_norm_temp /\ P[LogScaleName] = 0) =>
                  \E off \in {_repr_fn(P, [c EXCEPT !.repr_norm_temp = FALSE],
                                       k.obs, k.action, NoHidden, NoneMade)} :
                      /\ k.out.sa_repr = off.sa_repr
                      /\ \A row \in Rows(off.sa_repr) : row.sq = Dot(row.v, row.v) /\ row.ex = 0
            /\ ~c.repr_norm =>
                  \E other \in {_repr_fn(P, [c EXCEPT !.repr_norm_temp = ~c.repr_norm_temp],
                                         k.obs, k.action, NoHidden, NoneMade)} :
                      /\ k.out.sa_repr = other.sa_repr
                      /\ k.out.g_repr = other.g_repr
                      /\ LogScaleName \notin DOMAIN P
                      /\ LogScaleName \notin NamesOf(k.out.trace)

C6_Witness ==
    /\ cfg.repr_norm /\ cfg.repr_norm_temp
    /\ call.fn = "repr_fn"
    /\ params[LogScaleName] = 0
    /\ \E row \in Rows(call.out.sa_repr) : UnitNorm(row) /\ row.sq > 1

\* C7: _combine_repr of N rows and M columns is the N x M matrix of inner
\* products; the critic's rows are state-action embeddings and its columns
\* goal embeddings, the language network's rows are goal embeddings and its
\* columns language embeddings.
C7_PairwiseInnerProducts ==
    \A c \in {cfg}, k \in {call} :
        /\ k.fn = "critic" =>
             \A h \in 1..Len(k.out.heads) :
               \E sa \in {k.out.heads[h].sa_repr}, g \in {k.out.heads[h].g_repr} :
                 \A i \in 1..Len(sa), j \in 1..Len(g) :
                     (IF c.twin_q THEN k.out.outer.data[<<i, j, h>>]
                                  ELSE k.out.outer.data[<<i, j>>]) = InnerProduct(sa[i], g[j])
        /\ k.fn \in {"language", "language_on_goal"} =>
             /\ k.out.outer.shape = <<Len(k.goal), Len(k.language)>>
             /\ DOMAIN k.out.outer.data = (1..Len(k.goal)) \X (1..Len(k.language))
             /\ \A i \in 1..Len(k.goal), j \in 1..Len(k.language) :
                  k.out.outer.data[<<i, j>>] = InnerProduct(k.out.g_repr[i], k.out.l_repr[j])
        /\ k.fn = "combine" =>
             /\ k.plain.shape = <<Len(k.rows), Len(k.cols)>>
             /\ \A i \in 1..Len(k.rows), j \in 1..Len(k.cols) :
                  k.plain.data[<<i, j>>] = InnerProduct(k.rows[i], k.cols[j])

C7_Witness ==
    /\ call.fn = "language"
    /\ Len(call.goal) = MaxBatch /\ Len(call.language) = 1
    /\ call.out.outer.data[<<MaxBatch, 1>>].num # 0
    /\ call.out.outer.data[<<MaxBatch, 1>>] # call.out.outer.data[<<1, 1>>]

\* C8: scaling every row embedding by k scales every entry of the
\* similarity matrix by k.
C8_Bilinear ==
    \A k \in {call} :
        k.fn = "combine" =>
            /\ k.out.shape = k.plain.shape
            /\ \A ix \in DOMAIN k.plain.data :
                 k.out.data[ix] = ScaleEntry(k.k, k.plain.data[ix])

C8_Witness ==
    /\ call.fn = "combine" /\ call.k = -1
    /\ Len(call.rows) = MaxBatch
    /\ \E ix \in DOMAIN call.plain.data : call.plain.data[ix].num > 0

\* C9: with twin_q the second head is computed from the (state, goal) pair
\* the first call returned: the second call does no splitting, unflattening
\* or image encoding, and gives its own encoders, sa_encoder_1 and
\* g_encoder_1, the inputs the first head's encoders were given.
EncoderInput(trace, name) ==
    {trace[i].input : i \in {n \in 1..Len(trace) : trace[n].op = "module" /\ trace[n].name = name}}

C9_SecondHeadReusesHidden ==
    \A c \in {cfg}, k \in {call} :
        (k.fn = "critic" /\ c.twin_q) =>
            \E h1 \in {k.out.heads[1]}, h2 \in {k.out.heads[2]} :
                /\ h2.hidden = h1.hidden
                /\ \A i \in 1..Len(h2.trace) :
                      \/ h2.trace[i].op = "module"
                           /\ h2.trace[i].name \in {"sa_encoder_1", "g_encoder_1"}
                      \/ h2.trace[i].op = "get_parameter"
                           /\ h2.trace[i].name = LogScaleName
                /\ EncoderInput(h2.trace, "sa_encoder_1") = {ConcatLast(h1.hidden.state, k.action)}
                /\ EncoderInput(h2.trace, "g_encoder_1") = {h1.hidden.goal}
                /\ EncoderInput(h1.trace, "sa_encoder") = EncoderInput(h2.trace, "sa_encoder_1")
                /\ EncoderInput(h1.trace, "g_encoder") = EncoderInput(h2.trace, "g_encoder_1")
                /\ NamesOf(h1.trace) \ {"atari_torso"} = {"sa_encoder", "g_encoder"}
                      \cup (IF c.repr_norm /\ c.repr_norm_temp THEN {LogScaleName} ELSE {})
                /\ k.out.trace = h1.trace \o h2.trace

C9_Witness ==
    /\ call.fn = "critic" /\ cfg.twin_q /\ cfg.use_image_obs
    /\ call.out.heads[1].sa_repr # call.out.heads[2].sa_repr
    /\ call.out.heads[1].g_repr # call.out.heads[2].g_repr
    /\ \E r \in 1..Len(call.obs) : ~IsZero(call.out.heads[1].hidden.goal[r])

\* C10: a bundle make_networks returned has sample and sample_eval set, so
\* apply_policy_and_sample never raises on it; the error comes only from a
\* bundle built with the constructor, and is raised by
\* apply_policy_and_sample itself, never by the function it returns.
C10_FactoryBundleNeverRaises ==
    \A nets \in {networks}, s \in {sampler} :
        /\ built_by = "make_networks" => (nets.sample # None /\ nets.sample_eval # None)
        /\ s.asked =>
             /\ s.built_by = "make_networks" => (s.raised = None /\ s.sample_fn # None)
             /\ s.raised # None =>
                  /\ s.raised = NotProvided
                  /\ s.built_by = "constructor"
                  /\ s.invoked = 0 /\ drawn = NotDrawn
             /\ drawn # NotDrawn => (s.raised = None /\ drawn.how \in {"sample", "mode"})

C10_Witness ==
    /\ sampler.asked /\ sampler.built_by = "make_networks" /\ sampler.eval_mode
    /\ sampler.invoked = MaxInvoked
    /\ drawn # NotDrawn /\ drawn.how = "mode"

C10_WitnessError ==
    /\ sampler.asked /\ sampler.built_by = "constructor" /\ ~sampler.eval_mode
    /\ sampler.raised = NotProvided
====
